---- MODULE Spec2Model ----
(***************************************************************************)
(* Meme template / idea / caption actions of src/src/actions/index.ts over *)
(* the tables of src/db/tables.ts.                                         *)
(*                                                                         *)
(* A handler is an operator from the request (caller, input) and the       *)
(* current tables to its outcome: the response and the tables it leaves.   *)
(*                                                                         *)
(* Spec     : requests are served one at a time: a step serves a request, *)
(*            the next step delivers its response.                         *)
(* SpecRace : updateMemeCaption and deleteMemeCaption take one step per    *)
(*            store call, so that requests interleave at their awaits.     *)
(*                                                                         *)
(* Columns that no handler reads and that are copied from the input        *)
(* unchanged (description, imageUrl, layoutType, context, topic), and the  *)
(* timestamps of templates and ideas, are not carried.                     *)
(***************************************************************************)
EXTENDS Integers, FiniteSets, Sequences, TLC

VARIABLES
    fkEnforced,     \* whether the store enforces the declared references
    MemeTemplates,  \* table: set of rows
    MemeIdeas,      \* table: set of rows
    MemeCaptions,   \* table: set of rows
    uuid,           \* per table, the number of ids crypto.randomUUID() has put in a row
    clock,          \* the number of writes to the store so far
    call,           \* the request just served and its response, until delivered
    inflight        \* SpecRace: the requests in progress, by process

vars == <<fkEnforced, MemeTemplates, MemeIdeas, MemeCaptions, uuid, clock, call, inflight>>

store == <<MemeTemplates, MemeIdeas, MemeCaptions>>

-----------------------------------------------------------------------------
(* Bounds *)

\* writes to the store in one behaviour
MaxWrites == 3

\* requests in one behaviour of SpecRace
MaxRequests == 2

-----------------------------------------------------------------------------
(* Values *)

\* SQL NULL / a column left out of an insert
Null == "<null>"

\* a field absent from the input object
Undefined == "<undefined>"

Users == {"u1", "u2"}

\* context.locals.user: a user, or none
Callers == Users \cup {Null}

TextFields == {"variantLabel", "topText", "bottomText", "extraText"}

FlagFields == {"isFavorite", "isUsed"}

Tables == {"template", "idea", "caption"}

\* the id crypto.randomUUID() returns for a row of table when n were drawn for it before
NewId(table, n) == table \o ToString(n + 1)

IssuedIds(table) == {NewId(table, n) : n \in 0..(uuid[table] - 1)}

\* ids that name nothing: an unknown id and the empty string
NoIds == {"missing", ""}

\* template ids a caller may send: those of the templates, an idea's id, or none
TemplateIdInputs == {t.id : t \in MemeTemplates} \cup {NewId("idea", 0), Undefined} \cup NoIds

\* idea ids a caller may send
IdeaIdInputs == IssuedIds("idea") \cup NoIds

\* caption ids a caller may send: the ids of the captions created so far, deleted or not
CaptionIdInputs == IssuedIds("caption") \cup NoIds

-----------------------------------------------------------------------------
(* Store and language semantics *)

\* drizzle eq(column, value) renders "column = ?"; in SQL a comparison with
\* NULL is never true, so the row is not selected.  (and/or of such
\* comparisons, without negation, select exactly the rows where the
\* two-valued reading below is true.)
eq(column, value) == column # Null /\ value # Null /\ column = value

\* eq on a boolean column that is never NULL (isFavorite, isUsed have defaults)
eqFlag(column, value) == column = value

\* JavaScript truthiness of an optional string
Truthy(s) == s # Undefined /\ s # Null /\ s # ""

\* the value an insert stores for an optional text input
Column(v) == IF v = Undefined THEN Null ELSE v

\* the value of a variable bound by [x] = rows when rows is empty
UndefinedRow == [undefined |-> TRUE]

\* [x] = rows: the first row, or undefined
First(rows) == IF rows = {} THEN UndefinedRow ELSE CHOOSE r \in rows : TRUE

Ok(data) == [kind |-> "OK", message |-> "", data |-> data]

ActionError(code, message) == [kind |-> code, message |-> message, data |-> Null]

\* the input failed its zod schema: the handler is not called
InputError(message) == ActionError("BAD_REQUEST", message)

IsError(r) == r.kind # "OK"

\* what a handler leaves: its response, the tables, the ids used
Outcome(res, templates, ideas, captions, ids) ==
    [res |-> res, MemeTemplates |-> templates, MemeIdeas |-> ideas,
     MemeCaptions |-> captions, uuid |-> ids]

\* new Date() at an insert into table: time is read only there, so it is
\* counted in inserts into the table
Now(table) == uuid[table]

\* the ids used once a row of table was inserted
Drawn(table) == [uuid EXCEPT ![table] = @ + 1]

\* the handler threw or only read: nothing is written
Return(res) == Outcome(res, MemeTemplates, MemeIdeas, MemeCaptions, uuid)

-----------------------------------------------------------------------------
(* Helpers of the actions *)

requireUser(caller) ==
    IF caller = Null
    THEN ActionError("UNAUTHORIZED", "You must be signed in to perform this action.")
    ELSE Ok(caller)

\* mutant: the owner of the template is not compared with the caller
ensureTemplateAccessible_NoOwnerCheck(templates, templateId, userId) ==
    LET rows == {t \in templates : eq(t.id, templateId)}
    IN  IF rows = {}
        THEN ActionError("NOT_FOUND", "Template not found.")
        ELSE Ok(CHOOSE t \in rows : TRUE)

ensureTemplateAccessible(templates, templateId, userId) ==
    LET rows == {t \in templates : eq(t.id, templateId)}
    IN  IF rows = {}
        THEN ActionError("NOT_FOUND", "Template not found.")
        ELSE LET template == CHOOSE t \in rows : TRUE
             IN  IF Truthy(template.userId) /\ template.userId # userId
                 THEN ActionError("FORBIDDEN", "You do not have access to this template.")
                 ELSE Ok(template)

\* mutant: the idea is selected by id alone
getOwnedIdea_AnyOwner(ideas, ideaId, userId) ==
    LET rows == {i \in ideas : eq(i.id, ideaId)}
    IN  IF rows = {}
        THEN ActionError("NOT_FOUND", "Meme idea not found.")
        ELSE Ok(CHOOSE i \in rows : TRUE)

\* mutant: the idea is selected by id, and another owner's idea is refused as such
getOwnedIdea_Forbidden(ideas, ideaId, userId) ==
    LET rows == {i \in ideas : eq(i.id, ideaId)}
    IN  IF rows = {}
        THEN ActionError("NOT_FOUND", "Meme idea not found.")
        ELSE LET idea == CHOOSE i \in rows : TRUE
             IN  IF idea.userId # userId
                 THEN ActionError("FORBIDDEN", "You do not have access to this meme idea.")
                 ELSE Ok(idea)

getOwnedIdea(ideas, ideaId, userId) ==
    LET rows == {i \in ideas : eq(i.id, ideaId) /\ eq(i.userId, userId)}
    IN  IF rows = {}
        THEN ActionError("NOT_FOUND", "Meme idea not found.")
        ELSE Ok(CHOOSE i \in rows : TRUE)

-----------------------------------------------------------------------------
(* Template and idea handlers *)

NameInputs == {"Drake", ""}

createTemplate(caller, name) ==
    LET user == requireUser(caller)
        template == [id |-> NewId("template", uuid["template"]), userId |-> user.data,
                     name |-> name, isSystem |-> FALSE]
    IN  IF Len(name) < 1 THEN Return(InputError("Failed to validate"))
        ELSE IF IsError(user) THEN Return(user)
        ELSE Outcome(Ok(template), MemeTemplates \cup {template}, MemeIdeas, MemeCaptions,
                     Drawn("template"))

\* the rows listTemplates selects for the user
visibleTemplates(templates, userId) ==
    {t \in templates : eq(t.userId, userId) \/ eq(t.userId, Null)}

listTemplates(caller) ==
    LET user == requireUser(caller)
        templates == visibleTemplates(MemeTemplates, user.data)
    IN  IF IsError(user) THEN Return(user)
        ELSE Return(Ok([items |-> templates, total |-> Cardinality(templates)]))

\* the declared reference MemeIdeas.templateId -> MemeTemplates.id holds for row
templateReferenceHolds(templates, row) ==
    row.templateId = Null \/ \E t \in templates : t.id = row.templateId

\* whether createMemeIdea calls ensureTemplateAccessible for this input
checksTemplate(templateId) == Truthy(templateId)

\* A rejected insert leaves no row; the id drawn for it is never seen again.
createMemeIdea(caller, templateId) ==
    LET user == requireUser(caller)
        access == IF checksTemplate(templateId)
                  THEN ensureTemplateAccessible(MemeTemplates, templateId, user.data)
                  ELSE Ok(Null)
        idea == [id |-> NewId("idea", uuid["idea"]), userId |-> user.data,
                 templateId |-> Column(templateId)]
    IN  IF IsError(user) THEN Return(user)
        ELSE IF IsError(access) THEN Return(access)
        ELSE IF fkEnforced /\ ~templateReferenceHolds(MemeTemplates, idea)
        THEN Return(ActionError("INTERNAL_SERVER_ERROR", "FOREIGN KEY constraint failed"))
        ELSE Outcome(Ok(idea), MemeTemplates, MemeIdeas \cup {idea}, MemeCaptions, Drawn("idea"))

listMemeIdeas(caller) ==
    LET user == requireUser(caller)
        ideas == {i \in MemeIdeas : eq(i.userId, user.data)}
    IN  IF IsError(user) THEN Return(user)
        ELSE Return(Ok([items |-> ideas, total |-> Cardinality(ideas)]))

-----------------------------------------------------------------------------
(* Caption inputs: the optional fields of a request, as a function from   *)
(* the names of the fields present to their values                         *)

UpdatableFields == TextFields \cup FlagFields

NoFields == [f \in {} |-> TRUE]

\* the optional fields sent in one request
FieldInputs ==
    { NoFields,
      [topText |-> "x"],
      [isFavorite |-> TRUE],
      [variantLabel |-> "y", topText |-> "", bottomText |-> "y", extraText |-> "y",
       isFavorite |-> FALSE, isUsed |-> TRUE] }

\* input.field !== undefined
Present(fields, field) == field \in DOMAIN fields

\* mutant: the input schema has no refinement
atLeastOneField_Always(fields) == TRUE

\* the refinement of updateMemeCaption's input schema
atLeastOneField(fields) == \E field \in UpdatableFields : Present(fields, field)

\* the value an insert stores for an optional text field
TextColumn(fields, field) == IF Present(fields, field) THEN fields[field] ELSE Null

\* input.field ?? false
FlagColumn(fields, field) == IF Present(fields, field) THEN fields[field] ELSE FALSE

\* the row createMemeCaption inserts
newCaption(id, memeIdeaId, fields, now) ==
    [id |-> id,
     memeIdeaId |-> memeIdeaId,
     variantLabel |-> TextColumn(fields, "variantLabel"),
     topText |-> TextColumn(fields, "topText"),
     bottomText |-> TextColumn(fields, "bottomText"),
     extraText |-> TextColumn(fields, "extraText"),
     isFavorite |-> FlagColumn(fields, "isFavorite"),
     isUsed |-> FlagColumn(fields, "isUsed"),
     createdAt |-> now]

\* mutant: .set() is given every updatable field, absent ones as their insert defaults
setFields_Overwrite(row, fields) ==
    [c \in DOMAIN row |->
        IF c \in TextFields THEN TextColumn(fields, c)
        ELSE IF c \in FlagFields THEN FlagColumn(fields, c)
        ELSE row[c]]

\* row after .set({...}), which names the updatable fields present in the input
setFields(row, fields) ==
    [c \in DOMAIN row |->
        IF c \in UpdatableFields /\ Present(fields, c) THEN fields[c] ELSE row[c]]

\* the rows the existence check of updateMemeCaption and the delete select
captionRows(captions, id, memeIdeaId) ==
    {c \in captions : eq(c.id, id) /\ eq(c.memeIdeaId, memeIdeaId)}

\* the rows the UPDATE of updateMemeCaption writes
updateRows(captions, id) == {c \in captions : eq(c.id, id)}

\* the rows listMemeCaptions selects
listRows(captions, memeIdeaId, favoritesOnly, usedOnly) ==
    {c \in captions :
        /\ eq(c.memeIdeaId, memeIdeaId)
        /\ favoritesOnly => eqFlag(c.isFavorite, TRUE)
        /\ usedOnly => eqFlag(c.isUsed, TRUE)}

-----------------------------------------------------------------------------
(* Caption handlers *)

createMemeCaption(caller, memeIdeaId, fields) ==
    LET user == requireUser(caller)
        idea == getOwnedIdea(MemeIdeas, memeIdeaId, user.data)
        caption == newCaption(NewId("caption", uuid["caption"]), memeIdeaId, fields, Now("caption"))
    IN  IF Len(memeIdeaId) < 1 THEN Return(InputError("Failed to validate"))
        ELSE IF IsError(user) THEN Return(user)
        ELSE IF IsError(idea) THEN Return(idea)
        ELSE Outcome(Ok(caption), MemeTemplates, MemeIdeas, MemeCaptions \cup {caption},
                     Drawn("caption"))

updateMemeCaption(caller, id, memeIdeaId, fields) ==
    LET user == requireUser(caller)
        idea == getOwnedIdea(MemeIdeas, memeIdeaId, user.data)
        existing == First(captionRows(MemeCaptions, id, memeIdeaId))
        written == updateRows(MemeCaptions, id)
        returning == {setFields(c, fields) : c \in written}
    IN  IF Len(id) < 1 \/ Len(memeIdeaId) < 1 THEN Return(InputError("Failed to validate"))
        ELSE IF ~atLeastOneField(fields)
        THEN Return(InputError("At least one field must be provided to update."))
        ELSE IF IsError(user) THEN Return(user)
        ELSE IF IsError(idea) THEN Return(idea)
        ELSE IF existing = UndefinedRow
        THEN Return(ActionError("NOT_FOUND", "Meme caption not found."))
        ELSE Outcome(Ok(First(returning)), MemeTemplates, MemeIdeas,
                     (MemeCaptions \ written) \cup returning, uuid)

\* mutant: rowsAffected is not looked at
deleteMemeCaption_NoRowCheck(caller, id, memeIdeaId) ==
    LET user == requireUser(caller)
        idea == getOwnedIdea(MemeIdeas, memeIdeaId, user.data)
        deleted == captionRows(MemeCaptions, id, memeIdeaId)
    IN  IF Len(id) < 1 \/ Len(memeIdeaId) < 1 THEN Return(InputError("Failed to validate"))
        ELSE IF IsError(user) THEN Return(user)
        ELSE IF IsError(idea) THEN Return(idea)
        ELSE Outcome(Ok(Null), MemeTemplates, MemeIdeas, MemeCaptions \ deleted, uuid)

deleteMemeCaption(caller, id, memeIdeaId) ==
    LET user == requireUser(caller)
        idea == getOwnedIdea(MemeIdeas, memeIdeaId, user.data)
        deleted == captionRows(MemeCaptions, id, memeIdeaId)
    IN  IF Len(id) < 1 \/ Len(memeIdeaId) < 1 THEN Return(InputError("Failed to validate"))
        ELSE IF IsError(user) THEN Return(user)
        ELSE IF IsError(idea) THEN Return(idea)
        ELSE IF Cardinality(deleted) = 0
        THEN Return(ActionError("NOT_FOUND", "Meme caption not found."))
        ELSE Outcome(Ok(Null), MemeTemplates, MemeIdeas, MemeCaptions \ deleted, uuid)

listMemeCaptions(caller, memeIdeaId, favoritesOnly, usedOnly) ==
    LET user == requireUser(caller)
        idea == getOwnedIdea(MemeIdeas, memeIdeaId, user.data)
        captions == listRows(MemeCaptions, memeIdeaId, favoritesOnly, usedOnly)
    IN  IF Len(memeIdeaId) < 1 THEN Return(InputError("Failed to validate"))
        ELSE IF IsError(user) THEN Return(user)
        ELSE IF IsError(idea) THEN Return(idea)
        ELSE Return(Ok([items |-> captions, total |-> Cardinality(captions)]))

-----------------------------------------------------------------------------------------------------------------------------------------------------
(* Spec: requests served one at a time *)

Request(op, caller, input) == [op |-> op, caller |-> caller, input |-> input]

NoCall == [req |-> Request("none", Null, <<>>), res |-> Ok(Null)]

\* no response is waiting to be delivered
Idle == call.req.op = "none"

Init ==
    /\ fkEnforced \in BOOLEAN
    /\ MemeTemplates =
         {[id |-> "sys1", userId |-> Null, name |-> "Drake", isSystem |-> TRUE]}
    /\ MemeIdeas = {}
    /\ MemeCaptions = {}
    /\ uuid = [table \in Tables |-> 0]
    /\ clock = 0
    /\ call = NoCall
    /\ inflight = <<>>

Wrote(o) == <<o.MemeTemplates, o.MemeIdeas, o.MemeCaptions>> # store

\* the handler of req ran to its outcome o
Serve(req, o) ==
    /\ Wrote(o) => clock < MaxWrites
    /\ MemeTemplates' = o.MemeTemplates
    /\ MemeIdeas' = o.MemeIdeas
    /\ MemeCaptions' = o.MemeCaptions
    /\ uuid' = o.uuid
    /\ clock' = IF Wrote(o) THEN clock + 1 ELSE clock
    /\ call' = [req |-> req, res |-> o.res]
    /\ UNCHANGED <<fkEnforced, inflight>>

\* the response is delivered; the next request can be served
Deliver ==
    /\ ~Idle
    /\ call' = NoCall
    /\ UNCHANGED <<fkEnforced, store, uuid, clock, inflight>>

CreateTemplate ==
    /\ Idle
    /\ \E caller \in Callers, name \in NameInputs :
          Serve(Request("createTemplate", caller, [name |-> name]),
                createTemplate(caller, name))

ListTemplates ==
    /\ Idle
    /\ \E caller \in Callers :
          Serve(Request("listTemplates", caller, <<>>), listTemplates(caller))

CreateMemeIdea ==
    /\ Idle
    /\ \E caller \in Callers, templateId \in TemplateIdInputs :
          Serve(Request("createMemeIdea", caller, [templateId |-> templateId]),
                createMemeIdea(caller, templateId))

ListMemeIdeas ==
    /\ Idle
    /\ \E caller \in Callers :
          Serve(Request("listMemeIdeas", caller, <<>>), listMemeIdeas(caller))

CreateMemeCaption ==
    /\ Idle
    /\ \E caller \in Callers, memeIdeaId \in IdeaIdInputs, fields \in FieldInputs :
          Serve(Request("createMemeCaption", caller, [memeIdeaId |-> memeIdeaId, fields |-> fields]),
                createMemeCaption(caller, memeIdeaId, fields))

UpdateMemeCaption ==
    /\ Idle
    /\ \E caller \in Callers, id \in CaptionIdInputs, memeIdeaId \in IdeaIdInputs,
          fields \in FieldInputs :
          Serve(Request("updateMemeCaption", caller,
                        [id |-> id, memeIdeaId |-> memeIdeaId, fields |-> fields]),
                updateMemeCaption(caller, id, memeIdeaId, fields))

DeleteMemeCaption ==
    /\ Idle
    /\ \E caller \in Callers, id \in CaptionIdInputs, memeIdeaId \in IdeaIdInputs :
          Serve(Request("deleteMemeCaption", caller, [id |-> id, memeIdeaId |-> memeIdeaId]),
                deleteMemeCaption(caller, id, memeIdeaId))

ListMemeCaptions ==
    /\ Idle
    /\ \E caller \in Callers, memeIdeaId \in IdeaIdInputs,
          favoritesOnly \in BOOLEAN, usedOnly \in BOOLEAN :
          Serve(Request("listMemeCaptions", caller,
                        [memeIdeaId |-> memeIdeaId, favoritesOnly |-> favoritesOnly,
                         usedOnly |-> usedOnly]),
                listMemeCaptions(caller, memeIdeaId, favoritesOnly, usedOnly))

Next ==
    \/ CreateTemplate
    \/ ListTemplates
    \/ CreateMemeIdea
    \/ ListMemeIdeas
    \/ CreateMemeCaption
    \/ UpdateMemeCaption
    \/ DeleteMemeCaption
    \/ ListMemeCaptions
    \/ Deliver

Spec == Init /\ [][Next]_vars

-----------------------------------------------------------------------------
(* Properties of Spec.  In a step that serves a request, call' is the      *)
(* request and its response, the unprimed tables are those the handler     *)
(* found and the primed tables those it left.                              *)

CaptionOps == {"createMemeCaption", "updateMemeCaption", "deleteMemeCaption", "listMemeCaptions"}

\* the owner of the idea with this id, or Null when there is none
OwnerOfIdea(ideaId) ==
    IF \E i \in MemeIdeas : i.id = ideaId
    THEN (CHOOSE i \in MemeIdeas : i.id = ideaId).userId
    ELSE Null

\* C1: whenever listTemplates succeeds, its items include every stored
\* template that has no owner.
C1_OwnerlessTemplatesListed ==
    (call.req.op = "listTemplates" /\ call.res.kind = "OK")
        => \A t \in MemeTemplates : t.userId = Null => t \in call.res.data.items

\* C2: a template with an owner is in the items of listTemplates only for
\* that owner, and ensureTemplateAccessible with its id signals FORBIDDEN
\* for every other user.
C2_OwnedTemplatesPrivate ==
    /\ (call.req.op = "listTemplates" /\ call.res.kind = "OK")
          => \A t \in call.res.data.items : t.userId # Null => t.userId = call.req.caller
    /\ \A t \in MemeTemplates : \A v \in Users :
          (t.userId # Null /\ v # t.userId)
              => ensureTemplateAccessible(MemeTemplates, t.id, v).kind = "FORBIDDEN"

\* a user listed the templates while another user's template was stored
C2_Witness ==
    /\ call.req.op = "listTemplates"
    /\ call.res.kind = "OK"
    /\ \E t \in MemeTemplates : t.userId \in Users \ {call.req.caller}

C4_Step ==
    (call'.req.op = "createMemeIdea" /\ call'.req.caller \in Users
        /\ call'.req.input.templateId # Undefined)
    => LET templateId == call'.req.input.templateId
           rows == {t \in MemeTemplates : t.id = templateId}
       IN  /\ rows = {} => (call'.res.kind = "NOT_FOUND" /\ MemeIdeas' = MemeIdeas)
           /\ (\E t \in rows : t.userId \notin {Null, call'.req.caller})
                 => (call'.res.kind = "FORBIDDEN" /\ MemeIdeas' = MemeIdeas)

C4_MissingOrForeignTemplateRefused == [][C4_Step]_vars

\* C5: a caption operation succeeds only when the caller is signed in and
\* owns the idea named by memeIdeaId; every caption it creates, changes,
\* deletes or returns belongs to an idea the caller owns.
C5_Step ==
    call'.req.op \in CaptionOps
    => LET caller == call'.req.caller
           touched == (MemeCaptions' \ MemeCaptions) \cup (MemeCaptions \ MemeCaptions')
           returned == IF call'.res.kind # "OK" THEN {}
                       ELSE IF call'.req.op = "listMemeCaptions" THEN call'.res.data.items
                       ELSE IF call'.req.op = "deleteMemeCaption" THEN {}
                       ELSE {call'.res.data}
       IN  /\ call'.res.kind = "OK"
                => (caller \in Users /\ OwnerOfIdea(call'.req.input.memeIdeaId) = caller)
           /\ \A c \in touched \cup returned :
                caller \in Users /\ OwnerOfIdea(c.memeIdeaId) = caller

C5_CaptionsOnlyThroughOwnedIdea == [][C5_Step]_vars

\* a user asked to update or delete a caption of another user's idea
C5_Witness ==
    /\ call.req.op \in {"updateMemeCaption", "deleteMemeCaption"}
    /\ call.req.caller \in Users
    /\ call.res.kind = "NOT_FOUND"
    /\ \E c \in MemeCaptions :
          /\ c.id = call.req.input.id
          /\ c.memeIdeaId = call.req.input.memeIdeaId
          /\ OwnerOfIdea(c.memeIdeaId) \in Users \ {call.req.caller}

\* C6: for an idea of another user, getOwnedIdea gives the caller the error
\* it gives when the idea is not stored at all and the error it gives for an
\* id that names nothing: NOT_FOUND with the same message.
C6_OwnedIdeaHidesExistence ==
    \A i \in MemeIdeas : \A v \in Users \ {i.userId} :
        LET answer == getOwnedIdea(MemeIdeas, i.id, v)
        IN  /\ answer.kind = "NOT_FOUND"
            /\ answer = getOwnedIdea(MemeIdeas \ {i}, i.id, v)
            /\ answer = getOwnedIdea(MemeIdeas, "missing", v)

\* a user named another user's idea in a caption request and was told NOT_FOUND
C6_Witness ==
    /\ call.req.op \in CaptionOps
    /\ call.req.caller \in Users
    /\ OwnerOfIdea(call.req.input.memeIdeaId) \in Users \ {call.req.caller}
    /\ call.res = ActionError("NOT_FOUND", "Meme idea not found.")

\* C7: a successful updateMemeCaption returns the caption with the given id
\* in which each field present in the input has the input's value and every
\* other column its old value, stores it, and leaves every other caption.
C7_Step ==
    (call'.req.op = "updateMemeCaption" /\ call'.res.kind = "OK")
    => LET input == call'.req.input
           new == call'.res.data
       IN  \E old \in MemeCaptions :
             /\ old.id = input.id
             /\ DOMAIN new = DOMAIN old
             /\ \A col \in DOMAIN old :
                   new[col] = IF col \in UpdatableFields /\ col \in DOMAIN input.fields
                              THEN input.fields[col]
                              ELSE old[col]
             /\ MemeCaptions' = (MemeCaptions \ {old}) \cup {new}

C7_PartialUpdate == [][C7_Step]_vars

\* a caption created with topText "x" was updated with isFavorite alone
C7_Witness ==
    /\ call.req.op = "updateMemeCaption"
    /\ call.res.kind = "OK"
    /\ DOMAIN call.req.input.fields = {"isFavorite"}
    /\ call.res.data.topText = "x"
    /\ call.res.data.isFavorite = TRUE
    /\ call.res.data \in MemeCaptions

\* the captions with this id and this parent idea
Matching(id, memeIdeaId) ==
    {c \in MemeCaptions : c.id = id /\ c.memeIdeaId = memeIdeaId}

\* the idea's owner asks to delete
OwnerDeletes ==
    /\ call'.req.op = "deleteMemeCaption"
    /\ call'.req.caller \in Users
    /\ OwnerOfIdea(call'.req.input.memeIdeaId) = call'.req.caller

\* C8, as claimed: deleteMemeCaption by the idea's owner signals NOT_FOUND and
\* removes nothing whenever no caption has both the id and the parent idea id,
\* and succeeds only by removing exactly the caption that has both.
C8_Step ==
    OwnerDeletes
    => LET match == Matching(call'.req.input.id, call'.req.input.memeIdeaId)
       IN  /\ match = {} => (call'.res.kind = "NOT_FOUND" /\ MemeCaptions' = MemeCaptions)
           /\ call'.res.kind = "OK"
                => (Cardinality(match) = 1 /\ MemeCaptions' = MemeCaptions \ match)

C8_DeleteOfNothingIsNotFound == [][C8_Step]_vars

\* C8, amended: as claimed, except that an empty id is refused as invalid
\* input (BAD_REQUEST), again with nothing removed.
C8_StepAmended ==
    OwnerDeletes
    => LET match == Matching(call'.req.input.id, call'.req.input.memeIdeaId)
       IN  /\ match = {}
                => /\ call'.res.kind =
                        IF call'.req.input.id = "" THEN "BAD_REQUEST" ELSE "NOT_FOUND"
                   /\ MemeCaptions' = MemeCaptions
           /\ call'.res.kind = "OK"
                => (Cardinality(match) = 1 /\ MemeCaptions' = MemeCaptions \ match)

C8_DeleteOfNothingIsRefused == [][C8_StepAmended]_vars

\* the owner of two ideas asked to delete a stored caption under the idea it
\* does not belong to
C8_Witness ==
    /\ call.req.op = "deleteMemeCaption"
    /\ call.req.caller \in Users
    /\ OwnerOfIdea(call.req.input.memeIdeaId) = call.req.caller
    /\ call.res.kind = "NOT_FOUND"
    /\ \E c \in MemeCaptions :
          c.id = call.req.input.id /\ c.memeIdeaId # call.req.input.memeIdeaId

\* the request is an updateMemeCaption with none of the six fields
EmptyUpdate ==
    /\ call'.req.op = "updateMemeCaption"
    /\ \A field \in UpdatableFields : field \notin DOMAIN call'.req.input.fields

\* the input of the request passes the schema of its operation
ValidInput ==
    LET op == call'.req.op
        input == call'.req.input
    IN  /\ op = "createTemplate" => input.name # ""
        /\ op \in CaptionOps => input.memeIdeaId # ""
        /\ op \in {"updateMemeCaption", "deleteMemeCaption"} => input.id # ""
        /\ ~EmptyUpdate

\* C9, as claimed: a request answered with an error leaves the three tables
\* unchanged; a request without a user is answered UNAUTHORIZED; an
\* updateMemeCaption with none of the six fields is answered BAD_REQUEST.
C9_Step ==
    call'.req.op # "none"
    => /\ IsError(call'.res) => UNCHANGED store
       /\ call'.req.caller = Null => call'.res.kind = "UNAUTHORIZED"
       /\ EmptyUpdate => call'.res.kind = "BAD_REQUEST"

C9_ErrorsWriteNothing == [][C9_Step]_vars

\* C9, amended: as claimed, except that a request without a user is answered
\* UNAUTHORIZED when its input is valid, and BAD_REQUEST when it is not.
C9_StepAmended ==
    call'.req.op # "none"
    => /\ IsError(call'.res) => UNCHANGED store
       /\ call'.req.caller = Null
            => call'.res.kind = IF ValidInput THEN "UNAUTHORIZED" ELSE "BAD_REQUEST"
       /\ EmptyUpdate => call'.res.kind = "BAD_REQUEST"

C9_ErrorsWriteNothingValidatedFirst == [][C9_StepAmended]_vars

\* the owner of a stored caption sent an update with no field for it
C9_Witness ==
    /\ call.req.op = "updateMemeCaption"
    /\ call.res.kind = "BAD_REQUEST"
    /\ DOMAIN call.req.input.fields = {}
    /\ call.req.caller \in Users
    /\ \E c \in MemeCaptions :
          /\ c.id = call.req.input.id
          /\ c.memeIdeaId = call.req.input.memeIdeaId
          /\ OwnerOfIdea(c.memeIdeaId) = call.req.caller

-----------------------------------------------------------------------------
(* SpecRace: updateMemeCaption and deleteMemeCaption, one store call a step *)

Procs == 1..MaxRequests

\* a local variable not assigned yet
Unset == [unset |-> TRUE]

NoRequest ==
    [pc |-> "idle", req |-> Request("none", Null, <<>>), existing |-> Unset, res |-> Ok(Null)]

\* the tables after u1 created an idea without template and a caption for it
InitRace ==
    /\ fkEnforced \in BOOLEAN
    /\ MemeTemplates =
         {[id |-> "sys1", userId |-> Null, name |-> "Drake", isSystem |-> TRUE]}
    /\ MemeIdeas = {[id |-> NewId("idea", 0), userId |-> "u1", templateId |-> Null]}
    /\ MemeCaptions = {newCaption(NewId("caption", 0), NewId("idea", 0), [topText |-> "x"], 0)}
    /\ uuid = [table \in Tables |-> IF table = "template" THEN 0 ELSE 1]
    /\ clock = 2
    /\ call = NoCall
    /\ inflight = [p \in Procs |-> NoRequest]

\* process p goes on at pc
Goto(p, pc) == inflight' = [inflight EXCEPT ![p].pc = pc]

\* the request of process p ends with response res
Finish(p, res) == inflight' = [inflight EXCEPT ![p].pc = "done", ![p].res = res]

RaceFrame == UNCHANGED <<fkEnforced, MemeTemplates, MemeIdeas, uuid, call>>

\* the request arrives: its input is validated, the handler starts,
\* requireUser runs, and the handler awaits getOwnedIdea
Begin(p, req, valid, message) ==
    LET user == requireUser(req.caller)
    IN  /\ inflight[p].pc = "idle"
        /\ inflight' = [inflight EXCEPT ![p] =
              IF ~valid THEN [NoRequest EXCEPT !.pc = "done", !.req = req, !.res = InputError(message)]
              ELSE IF IsError(user) THEN [NoRequest EXCEPT !.pc = "done", !.req = req, !.res = user]
              ELSE [NoRequest EXCEPT !.pc = "getOwnedIdea", !.req = req]]
        /\ RaceFrame
        /\ UNCHANGED <<MemeCaptions, clock>>

BeginUpdate(p, caller, id, memeIdeaId, fields) ==
    Begin(p,
          Request("updateMemeCaption", caller, [id |-> id, memeIdeaId |-> memeIdeaId, fields |-> fields]),
          Len(id) >= 1 /\ Len(memeIdeaId) >= 1 /\ atLeastOneField(fields),
          IF Len(id) >= 1 /\ Len(memeIdeaId) >= 1
          THEN "At least one field must be provided to update."
          ELSE "Failed to validate")

BeginDelete(p, caller, id, memeIdeaId) ==
    Begin(p,
          Request("deleteMemeCaption", caller, [id |-> id, memeIdeaId |-> memeIdeaId]),
          Len(id) >= 1 /\ Len(memeIdeaId) >= 1,
          "Failed to validate")

\* the select of getOwnedIdea is answered
AwaitGetOwnedIdea(p) ==
    LET req == inflight[p].req
        idea == getOwnedIdea(MemeIdeas, req.input.memeIdeaId, req.caller)
    IN  /\ inflight[p].pc = "getOwnedIdea"
        /\ IF IsError(idea) THEN Finish(p, idea)
           ELSE IF req.op = "updateMemeCaption" THEN Goto(p, "existing")
           ELSE Goto(p, "delete")
        /\ RaceFrame
        /\ UNCHANGED <<MemeCaptions, clock>>

\* the select of updateMemeCaption's existence check is answered
AwaitExisting(p) ==
    LET req == inflight[p].req
        existing == First(captionRows(MemeCaptions, req.input.id, req.input.memeIdeaId))
    IN  /\ inflight[p].pc = "existing"
        /\ inflight' = [inflight EXCEPT ![p] =
              IF existing = UndefinedRow
              THEN [@ EXCEPT !.pc = "done", !.existing = existing,
                             !.res = ActionError("NOT_FOUND", "Meme caption not found.")]
              ELSE [@ EXCEPT !.pc = "update", !.existing = existing]]
        /\ RaceFrame
        /\ UNCHANGED <<MemeCaptions, clock>>

\* the UPDATE ... RETURNING of updateMemeCaption is answered
AwaitUpdate(p) ==
    LET req == inflight[p].req
        written == updateRows(MemeCaptions, req.input.id)
        returning == {setFields(c, req.input.fields) : c \in written}
    IN  /\ inflight[p].pc = "update"
        /\ MemeCaptions' = (MemeCaptions \ written) \cup returning
        /\ clock' = clock + 1
        /\ Finish(p, Ok(First(returning)))
        /\ RaceFrame

\* the DELETE of deleteMemeCaption is answered
AwaitDelete(p) ==
    LET req == inflight[p].req
        deleted == captionRows(MemeCaptions, req.input.id, req.input.memeIdeaId)
    IN  /\ inflight[p].pc = "delete"
        /\ MemeCaptions' = MemeCaptions \ deleted
        /\ clock' = clock + 1
        /\ Finish(p, IF Cardinality(deleted) = 0
                     THEN ActionError("NOT_FOUND", "Meme caption not found.")
                     ELSE Ok(Null))
        /\ RaceFrame

StartUpdate ==
    \E p \in Procs, caller \in Callers, id \in CaptionIdInputs, memeIdeaId \in IdeaIdInputs,
       fields \in FieldInputs : BeginUpdate(p, caller, id, memeIdeaId, fields)

StartDelete ==
    \E p \in Procs, caller \in Callers, id \in CaptionIdInputs, memeIdeaId \in IdeaIdInputs :
       BeginDelete(p, caller, id, memeIdeaId)

NextRace ==
    \/ StartUpdate
    \/ StartDelete
    \/ \E p \in Procs : AwaitGetOwnedIdea(p)
    \/ \E p \in Procs : AwaitExisting(p)
    \/ \E p \in Procs : AwaitUpdate(p)
    \/ \E p \in Procs : AwaitDelete(p)

SpecRace == InitRace /\ [][NextRace]_vars

\* C10: under any interleaving, an updateMemeCaption that returns success
\* returns a caption record with the id and the parent idea id of the request,
\* and one whose existence check finds no caption signals NOT_FOUND.
C10_UpdateReturnsTheRecord ==
    \A p \in Procs :
        (inflight[p].pc = "done" /\ inflight[p].req.op = "updateMemeCaption")
        => /\ inflight[p].res.kind = "OK"
                => /\ inflight[p].res.data # UndefinedRow
                   /\ inflight[p].res.data.id = inflight[p].req.input.id
                   /\ inflight[p].res.data.memeIdeaId = inflight[p].req.input.memeIdeaId
           /\ inflight[p].existing = UndefinedRow => inflight[p].res.kind = "NOT_FOUND"

====
